---- MODULE Spec2Model ----
(***************************************************************************)
(* Model of xml_processor.py: the Extractor parse_building_record_xml and  *)
(* the Aggregator process_uploaded_files.                                  *)
(*                                                                         *)
(* Texts are sequences of one-character strings.  Python values that end   *)
(* up in a record (str, int, None) are tagged records of one shape, so     *)
(* that any two of them can be compared.                                   *)
(***************************************************************************)
EXTENDS Integers, Sequences, FiniteSets, TLC

VARIABLES
    xml_content,     \* Extractor harness: the argument of parse_building_record_xml
    ret,             \* Extractor harness: the outcome of the call
    xpc,             \* Extractor harness: "idle" | "call" | "returned"
    uploaded_files,  \* Aggregator: the batch given to process_uploaded_files
    pc,              \* Aggregator: "idle" | "loop" | "zip" | "done"
    i,               \* Aggregator: index of the source being processed
    j,               \* Aggregator: index of the archive entry being processed
    all_records,     \* Aggregator: the accumulator
    origin,          \* history: origin[k] is where all_records[k] came from
    st_errors,       \* the diagnostics shown with st.error, in order
    df               \* Aggregator: the returned table, once done

vars == <<xml_content, ret, xpc, uploaded_files, pc, i, j, all_records, origin,
          st_errors, df>>

-----------------------------------------------------------------------------
(* Bounds of the model *)

MaxUprnLen == 2
MaxItems == 3
MaxDocs == 3

-----------------------------------------------------------------------------
(* Python values *)

PyNone == [t |-> "none", s |-> <<>>, n |-> 0]
PyStr(s) == [t |-> "str", s |-> s, n |-> 0]
PyInt(n) == [t |-> "int", s |-> <<>>, n |-> n]

\* Python truthiness of an element's .text (None and '' are falsy)
Truthy(v) == v.t = "str" /\ Len(v.s) > 0

EmptyDict == [k \in {} |-> PyNone]

-----------------------------------------------------------------------------
(* str.isdigit, int, str.title, str.join *)

DecimalDigits == {"0", "1", "2", "3", "4", "5", "6", "7", "8", "9"}
\* characters str.isdigit accepts and int() rejects (superscript two)
OtherDigits == {"sup2"}

DigitVal(c) ==
    CASE c = "0" -> 0 [] c = "1" -> 1 [] c = "2" -> 2 [] c = "3" -> 3
      [] c = "4" -> 4 [] c = "5" -> 5 [] c = "6" -> 6 [] c = "7" -> 7
      [] c = "8" -> 8 [] c = "9" -> 9

isdigit(s) ==
    /\ Len(s) > 0
    /\ \A k \in 1..Len(s) : s[k] \in DecimalDigits \cup OtherDigits

\* int(s) for a text isdigit accepted: the value, or ValueError
IntRaises(s) == \E k \in 1..Len(s) : s[k] \notin DecimalDigits

RECURSIVE IntValue(_)
IntValue(s) ==
    IF Len(s) = 0 THEN 0
    ELSE 10 * IntValue(SubSeq(s, 1, Len(s) - 1)) + DigitVal(s[Len(s)])

Lowers == {"a", "b"}
Uppers == {"A", "B"}
Upper(c) == CASE c = "a" -> "A" [] c = "b" -> "B" [] OTHER -> c
Lower(c) == CASE c = "A" -> "a" [] c = "B" -> "b" [] OTHER -> c
Cased(c) == c \in Lowers \cup Uppers

RECURSIVE TitleFrom(_, _, _)
TitleFrom(s, k, prevCased) ==
    IF k > Len(s) THEN <<>>
    ELSE <<IF prevCased THEN Lower(s[k]) ELSE Upper(s[k])>>
         \o TitleFrom(s, k + 1, Cased(s[k]))

title(s) == TitleFrom(s, 1, FALSE)

Separator == <<" ", "|", " ">>

RECURSIVE Join(_)
Join(items) ==
    IF Len(items) = 0 THEN <<>>
    ELSE IF Len(items) = 1 THEN items[1]
    ELSE items[1] \o Separator \o Join(Tail(items))

-----------------------------------------------------------------------------
(* The parsed tree.  An element has a text, children reached by find (the   *)
(* first child with a tag: kids), and children reached by findall (list).  *)
(* NoElement is the None that find returns.                                *)

NoKids == [k \in {} |-> PyNone]

NoElement == [none |-> TRUE, text |-> PyNone, kids |-> NoKids, list |-> <<>>]
Leaf(text) == [none |-> FALSE, text |-> text, kids |-> NoKids, list |-> <<>>]
Node(kids) == [none |-> FALSE, text |-> PyNone, kids |-> kids, list |-> <<>>]
ListNode(kids, list) == [none |-> FALSE, text |-> PyNone, kids |-> kids, list |-> list]

find(e, tag) == IF tag \in DOMAIN e.kids THEN e.kids[tag] ELSE NoElement
findall(e) == e.list

\* X.find(tag).text if X.find(tag) is not None else ''
LeafText(e, tag) ==
    IF ~find(e, tag).none THEN find(e, tag).text ELSE PyStr(<<>>)

-----------------------------------------------------------------------------
(* parse_building_record_xml *)

\* lines 14-19: global_details.find on None raises AttributeError
GlobalDetailsRaises(root) == find(root, "GlobalDetails").none

GlobalFields(root) ==
    LET global_details == find(root, "GlobalDetails") IN
    ("sender_code" :> LeafText(global_details, "SenderCode"))
    @@ ("local_authority_code" :> LeafText(global_details, "LocalAuthorityCode"))
    @@ ("submission_date" :> LeafText(global_details, "SubmissionDate"))
    @@ ("sender_email" :> LeafText(global_details, "SenderResponseEmailAddress"))
    @@ ("sender_phone" :> LeafText(global_details, "SenderResponsePhoneNo"))

StatusPart(building_record) ==
    LET status_details == find(building_record, "StatusDetails") IN
    IF ~status_details.none
    THEN "status_type" :> LeafText(status_details, "StatusType")
    ELSE EmptyDict

RecordPart(building_record) ==
    LET record_details == find(building_record, "RecordDetails") IN
    IF ~record_details.none
    THEN "record_type" :> LeafText(record_details, "RecordType")
    ELSE EmptyDict

CountyValue(work_address) ==
    LET county_element == find(work_address, "County") IN
    IF ~county_element.none /\ Truthy(county_element.text)
    THEN PyStr(title(county_element.text.s))
    ELSE PyStr(<<>>)

WorkAddressPart(work_address_details) ==
    LET work_address == find(work_address_details, "WorkAddress") IN
    IF ~work_address.none
    THEN ("number_name" :> LeafText(work_address, "NumberName"))
         @@ ("street" :> LeafText(work_address, "Street"))
         @@ ("locality" :> LeafText(work_address, "Locality"))
         @@ ("town_city" :> LeafText(work_address, "TownCity"))
         @@ ("county" :> CountyValue(work_address))
         @@ ("post_code" :> LeafText(work_address, "PostCode"))
    ELSE EmptyDict

\* line 57: the text of WorkAddressUprn, '' when the element or its text is missing
UprnText(work_address_details) ==
    LET e == find(work_address_details, "WorkAddressUprn") IN
    IF ~e.none /\ Truthy(e.text) THEN e.text.s ELSE <<>>

UprnValueNoCheck(uprn_text) ==
    IF Len(uprn_text) > 0 THEN PyStr(uprn_text) ELSE PyNone

\* line 58: int(uprn_text) if uprn_text.isdigit() else None
UprnValue(uprn_text) ==
    IF isdigit(uprn_text) THEN PyInt(IntValue(uprn_text)) ELSE PyNone

UprnRaises(uprn_text) == isdigit(uprn_text) /\ IntRaises(uprn_text)

AddressPart(building_record) ==
    LET work_address_details == find(building_record, "WorkAddressDetails") IN
    IF ~work_address_details.none
    THEN WorkAddressPart(work_address_details)
         @@ ("work_address_uprn" :> UprnValue(UprnText(work_address_details)))
         @@ ("type_of_property" :> LeafText(work_address_details, "TypeOfProperty"))
    ELSE EmptyDict

WorkPart(building_record) ==
    LET work_details == find(building_record, "WorkDetails") IN
    IF ~work_details.none
    THEN ("sender_unique_record_id" :> LeafText(work_details, "SenderUniqueRecordIdentifier"))
         @@ ("cp_scheme_certificate_ref" :> LeafText(work_details, "CPSchemeCertificateReference"))
         @@ ("commissioning_required" :> LeafText(work_details, "CommissioningRequired"))
         @@ ("commissioning_carried_out" :> LeafText(work_details, "CommissioningCarriedOut"))
         @@ ("date_work_completed" :> LeafText(work_details, "DateWorkCompleted"))
    ELSE EmptyDict

\* lines 72-76: the texts of the items that have one, in document order
RECURSIVE WorkItemsAll(_)
WorkItemsAll(items) ==
    IF Len(items) = 0 THEN <<>>
    ELSE <<Head(items).text.s>> \o WorkItemsAll(Tail(items))

RECURSIVE WorkItems(_)
WorkItems(items) ==
    IF Len(items) = 0 THEN <<>>
    ELSE (IF Truthy(Head(items).text) THEN <<Head(items).text.s>> ELSE <<>>)
         \o WorkItems(Tail(items))

DescriptionPart(building_record) ==
    LET work_description == find(building_record, "WorkDescription")
        work_items == IF ~work_description.none
                      THEN WorkItems(findall(work_description))
                      ELSE <<>>
    IN  "work_description" :> PyStr(Join(work_items))

ContactPart(building_record) ==
    LET contact_info == find(building_record, "ContactInformation")
        contact_details == find(contact_info, "ContactDetails")
    IN  IF ~contact_info.none /\ ~contact_details.none
        THEN ("contact_type" :> LeafText(contact_details, "ContactType"))
             @@ ("installer_registered_name" :> LeafText(contact_details, "InstallerRegisteredName"))
             @@ ("person_registration_id" :> LeafText(contact_details, "PersonRegistrationIdentifier"))
             @@ ("telephone_no" :> LeafText(contact_details, "TelephoneNo"))
        ELSE EmptyDict

\* lines 25-88: one iteration of the loop, when it does not raise
BuildRecord(globals, building_record) ==
    globals
    @@ StatusPart(building_record)
    @@ RecordPart(building_record)
    @@ AddressPart(building_record)
    @@ WorkPart(building_record)
    @@ DescriptionPart(building_record)
    @@ ContactPart(building_record)

\* line 58 is the one place of the loop body that can raise (ValueError)
RecordRaises(building_record) ==
    LET work_address_details == find(building_record, "WorkAddressDetails") IN
    ~work_address_details.none /\ UprnRaises(UprnText(work_address_details))

\* lines 21-91: the loop; when line 58 raises, value is the local list
\* `records` as it stands at that moment
RECURSIVE RecordLoop(_, _, _, _)
RecordLoop(globals, brs, k, records) ==
    IF k > Len(brs) THEN [raised |-> "none", value |-> records]
    ELSE IF RecordRaises(brs[k]) THEN [raised |-> "ValueError", value |-> records]
    ELSE RecordLoop(globals, brs, k + 1,
                    Append(records, BuildRecord(globals, brs[k])))

\* lines 11-91: the try block
ExtractBody(xml) ==
    IF ~xml.wellformed THEN [raised |-> "ParseError", value |-> <<>>]
    ELSE IF GlobalDetailsRaises(xml.root)
         THEN [raised |-> "AttributeError", value |-> <<>>]
    ELSE RecordLoop(GlobalFields(xml.root), findall(xml.root), 1, <<>>)

NoName == [base |-> "", ext |-> ""]
Diagnostic(label, file, detail) == [label |-> label, file |-> file, detail |-> detail]

\* lines 93-98 with the handlers removed: the exception leaves the function
HandlersReraise(body) ==
    [raised |-> body.raised, value |-> body.value, errors |-> <<>>]

\* lines 96-98 returning the records built before the exception
HandlersKeepPartial(body) ==
    CASE body.raised = "none" ->
           [raised |-> "none", value |-> body.value, errors |-> <<>>]
      [] body.raised = "ParseError" ->
           [raised |-> "none", value |-> <<>>,
            errors |-> <<Diagnostic("XML parsing error", NoName, body.raised)>>]
      [] OTHER ->
           [raised |-> "none", value |-> body.value,
            errors |-> <<Diagnostic("Error processing XML", NoName, body.raised)>>]

\* lines 93-98: the two handlers; both return []
Handlers(body) ==
    CASE body.raised = "none" ->
           [raised |-> "none", value |-> body.value, errors |-> <<>>]
      [] body.raised = "ParseError" ->
           [raised |-> "none", value |-> <<>>,
            errors |-> <<Diagnostic("XML parsing error", NoName, body.raised)>>]
      [] OTHER ->
           [raised |-> "none", value |-> <<>>,
            errors |-> <<Diagnostic("Error processing XML", NoName, body.raised)>>]

parse_building_record_xml(xml) == Handlers(ExtractBody(xml))

-----------------------------------------------------------------------------
(* Documents given to the Extractor *)

SeqsUpTo(S, n) == UNION {[1..k -> S] : k \in 0..n}

Opt(tag, e) == IF e.none THEN NoKids ELSE tag :> e

TextV == PyStr(<<"v">>)
LeafModes == {"text", "empty", "absent"}

\* the leaves `tags`, all with a text, all without one, or all missing
ModeKids(tags, mode) ==
    IF mode = "absent" THEN NoKids
    ELSE [k \in tags |-> Leaf(IF mode = "text" THEN TextV ELSE PyNone)]

ModeLeaf(mode, text) ==
    IF mode = "absent" THEN NoElement
    ELSE Leaf(IF mode = "text" THEN PyStr(text) ELSE PyNone)

GlobalTags == {"SenderCode", "LocalAuthorityCode", "SubmissionDate",
               "SenderResponseEmailAddress", "SenderResponsePhoneNo"}
AddressTags == {"NumberName", "Street", "Locality", "TownCity", "PostCode"}
WorkTags == {"SenderUniqueRecordIdentifier", "CPSchemeCertificateReference",
             "CommissioningRequired", "CommissioningCarriedOut", "DateWorkCompleted"}
ContactTags == {"ContactType", "InstallerRegisteredName",
                "PersonRegistrationIdentifier", "TelephoneNo"}

Section(present, kids) == IF present THEN Node(kids) ELSE NoElement

\* a BuildingRecord element: which sections it has, and what is in them
MkBR(sd, rd, wad, wa, wd, wdesc, ci, cd, mode, uprn, county, items) ==
    Node(
        Opt("StatusDetails", Section(sd, ModeKids({"StatusType"}, mode)))
     @@ Opt("RecordDetails", Section(rd, ModeKids({"RecordType"}, mode)))
     @@ Opt("WorkAddressDetails",
            Section(wad,
                Opt("WorkAddress",
                    Section(wa, ModeKids(AddressTags, mode) @@ Opt("County", county)))
             @@ Opt("WorkAddressUprn", uprn)
             @@ ModeKids({"TypeOfProperty"}, mode)))
     @@ Opt("WorkDetails", Section(wd, ModeKids(WorkTags, mode)))
     @@ Opt("WorkDescription",
            IF wdesc THEN ListNode(NoKids, items) ELSE NoElement)
     @@ Opt("ContactInformation",
            Section(ci, Opt("ContactDetails", Section(cd, ModeKids(ContactTags, mode))))))

ModeItems(mode) == IF mode = "absent" THEN <<>> ELSE <<ModeLeaf(mode, <<"v">>)>>

ShapeBR(sd, rd, wad, wa, wd, wdesc, ci, cd, mode) ==
    MkBR(sd, rd, wad, wa, wd, wdesc, ci, cd, mode,
         ModeLeaf(mode, <<"1">>), ModeLeaf(mode, <<"a", "b">>), ModeItems(mode))

FullBR == ShapeBR(TRUE, TRUE, TRUE, TRUE, TRUE, TRUE, TRUE, TRUE, "text")
BareBR == ShapeBR(FALSE, FALSE, FALSE, FALSE, FALSE, FALSE, FALSE, FALSE, "text")

\* every combination of present and absent sections
ShapeBRs ==
    {ShapeBR(f[1], f[2], f[3], f[4], f[5], f[6], f[7], f[8], mode) :
        f \in {g \in [1..8 -> BOOLEAN] : (g[4] => g[3]) /\ (g[8] => g[7])},
        mode \in LeafModes}

UprnAlphabet == {"0", "1", "a", ".", "-", "sup2"}
UprnExamples == {<<"1", "2", "3", "4", "5">>, <<"1", "2", "a">>}
UprnTexts == SeqsUpTo(UprnAlphabet, MaxUprnLen) \cup UprnExamples
UprnLeaves == {NoElement, Leaf(PyNone)} \cup {Leaf(PyStr(t)) : t \in UprnTexts}

UprnBR(uprn) ==
    MkBR(TRUE, TRUE, TRUE, TRUE, TRUE, TRUE, TRUE, TRUE, "text",
         uprn, Leaf(PyStr(<<"a", "b">>)), <<Leaf(TextV)>>)

CountyTexts == {<<"a", "b", " ", "b">>, <<"A", "B">>, <<"a", "1", "b">>}
CountyLeaves == {NoElement, Leaf(PyNone)} \cup {Leaf(PyStr(t)) : t \in CountyTexts}

CountyBR(county) ==
    MkBR(TRUE, TRUE, TRUE, TRUE, TRUE, TRUE, TRUE, TRUE, "text",
         Leaf(PyStr(<<"1">>)), county, <<Leaf(TextV)>>)

ItemLeaves == {Leaf(PyNone), Leaf(PyStr(<<>>)), Leaf(PyStr(<<"B", "i">>)),
               Leaf(PyStr(<<"F">>))}

ItemsBR(items) ==
    MkBR(TRUE, TRUE, TRUE, TRUE, TRUE, TRUE, TRUE, TRUE, "text",
         Leaf(PyStr(<<"1">>)), Leaf(PyStr(<<"a", "b">>)), items)

BRVariants ==
    ShapeBRs
    \cup {UprnBR(u) : u \in UprnLeaves}
    \cup {CountyBR(c) : c \in CountyLeaves}
    \cup {ItemsBR(items) : items \in SeqsUpTo(ItemLeaves, MaxItems)}

GlobalChoices ==
    {NoElement} \cup {Node(ModeKids(S, mode)) : S \in SUBSET GlobalTags,
                                                mode \in {"text", "empty"}}
FullGlobal == Node(ModeKids(GlobalTags, "text"))

\* the text of a document: not well-formed, or a tree
Malformed == [wellformed |-> FALSE, root |-> NoElement]
Document(global, brs) ==
    [wellformed |-> TRUE, root |-> ListNode(Opt("GlobalDetails", global), brs)]

SupBR == UprnBR(Leaf(PyStr(<<"sup2">>)))
PairBRs == {FullBR, BareBR, SupBR}

ExtractDocs ==
    {Malformed}
    \cup {Document(g, brs) : g \in GlobalChoices, brs \in {<<>>, <<FullBR>>, <<BareBR, FullBR>>}}
    \cup {Document(FullGlobal, <<br>>) : br \in BRVariants}
    \cup {Document(FullGlobal, brs) : brs \in [1..2 -> PairBRs]}

-----------------------------------------------------------------------------
(* The Extractor alone: one call of parse_building_record_xml *)

NoReturn == [raised |-> "none", value |-> <<>>, errors |-> <<>>]

InitExtract ==
    /\ xml_content \in ExtractDocs
    /\ ret = NoReturn
    /\ xpc = "call"
    /\ uploaded_files = <<>>
    /\ pc = "idle"
    /\ i = 0
    /\ j = 0
    /\ all_records = <<>>
    /\ origin = <<>>
    /\ st_errors = <<>>
    /\ df = <<>>

CallExtract ==
    /\ xpc = "call"
    /\ ret' = parse_building_record_xml(xml_content)
    /\ st_errors' = st_errors \o ret'.errors
    /\ xpc' = "returned"
    /\ UNCHANGED <<xml_content, uploaded_files, pc, i, j, all_records, origin, df>>

NextExtract == CallExtract

SpecExtract == InitExtract /\ [][NextExtract]_vars

-----------------------------------------------------------------------------
(* Batches given to the Aggregator *)

Name(base, ext) == [base |-> base, ext |-> ext]
\* name.endswith(suffix), for the suffixes the code asks about
EndsWith(name, suffix) == name.ext = suffix
NameText(name) == PyStr(<<name.base, name.ext>>)

StatusBR == ShapeBR(TRUE, FALSE, FALSE, FALSE, FALSE, FALSE, FALSE, FALSE, "text")
LightSupBR ==
    MkBR(FALSE, FALSE, TRUE, FALSE, FALSE, FALSE, FALSE, FALSE, "absent",
         Leaf(PyStr(<<"sup2">>)), NoElement, <<>>)
LightGlobal == Node(ModeKids({"SenderCode"}, "text"))

\* what read().decode('utf-8') gives: a text, or UnicodeDecodeError
Bytes(decodable, text) == [decodable |-> decodable, text |-> text]
Undecodable == Bytes(FALSE, Malformed)
GoodA == Bytes(TRUE, Document(LightGlobal, <<BareBR, StatusBR, BareBR>>))
GoodB == Bytes(TRUE, Document(LightGlobal, <<StatusBR>>))
FailK == Bytes(TRUE, Document(LightGlobal, <<BareBR, LightSupBR>>))
BadMarkup == Bytes(TRUE, Malformed)
AggBytes == {GoodA, GoodB, FailK, BadMarkup, Undecodable}

\* an entry of an archive
Entry(name, bytes) == [name |-> name, bytes |-> bytes]
XmlEntryNames == {Name("x", ".xml"), Name("y", ".xml")}
Entries ==
    {Entry(n, b) : n \in XmlEntryNames, b \in AggBytes}
    \cup {Entry(Name("r", ".txt"), Undecodable)}

\* an uploaded file: its name says whether it is opened as an archive
PlainSource(bytes) ==
    [name |-> Name("a", ".xml"), validzip |-> FALSE, entries |-> <<>>, bytes |-> bytes]
ZipSource(validzip, entries) ==
    [name |-> Name("z", ".zip"), validzip |-> validzip, entries |-> entries,
     bytes |-> Undecodable]

\* the sources that count for c documents: a plain file or an archive that
\* cannot be opened counts for one, an archive for one more than its entries
SourcesOfCost(c) ==
    {ZipSource(TRUE, es) : es \in [1..(c - 1) -> Entries]}
    \cup (IF c = 1 THEN {PlainSource(b) : b \in AggBytes} \cup {ZipSource(FALSE, <<>>)}
          ELSE {})

RECURSIVE BatchesOfCost(_)
BatchesOfCost(c) ==
    IF c = 0 THEN {<<>>}
    ELSE UNION {{<<src>> \o rest : src \in SourcesOfCost(k),
                                   rest \in BatchesOfCost(c - k)} : k \in 1..c}

Batches == UNION {BatchesOfCost(c) : c \in 0..MaxDocs}

-----------------------------------------------------------------------------
(* process_uploaded_files *)

NaN == [t |-> "nan", s |-> <<>>, n |-> 0]

\* line 116 with the archive's name instead of the entry's
EntryTagArchive(uploaded_file, entry) == NameText(uploaded_file.name)

\* line 116: record['source_file'] = file_name
EntryTag(uploaded_file, entry) == NameText(entry.name)

\* line 123: record['source_file'] = uploaded_file.name
PlainTag(uploaded_file) == NameText(uploaded_file.name)

Tagged(records, tag) ==
    [k \in 1..Len(records) |-> ("source_file" :> tag) @@ records[k]]

ExtendFront(acc, records) == records \o acc

\* lines 117, 124: all_records.extend(records)
Extend(acc, records) == acc \o records

Origins(src, ent, n) == [k \in 1..n |-> [src |-> src, ent |-> ent, rec |-> k]]

FileDiagnostic(uploaded_file, exception) ==
    Diagnostic("Error processing file", uploaded_file.name, exception)

\* line 131: pd.DataFrame(all_records); line 134: pd.DataFrame()
DataFrame(records) ==
    LET columns == UNION {DOMAIN records[k] : k \in 1..Len(records)} IN
    [k \in 1..Len(records) |->
        [c \in columns |-> IF c \in DOMAIN records[k] THEN records[k][c] ELSE NaN]]

InitAgg ==
    /\ uploaded_files \in Batches
    /\ pc = "loop"
    /\ i = 1
    /\ j = 0
    /\ all_records = <<>>
    /\ origin = <<>>
    /\ st_errors = <<>>
    /\ df = <<>>
    /\ xml_content = Malformed
    /\ ret = NoReturn
    /\ xpc = "idle"

InLoop == pc = "loop" /\ i <= Len(uploaded_files)
InZip == pc = "zip" /\ j <= Len(uploaded_files[i].entries)

\* lines 120-124, the source read and decoded
ProcessPlain ==
    /\ InLoop
    /\ ~EndsWith(uploaded_files[i].name, ".zip")
    /\ uploaded_files[i].bytes.decodable
    /\ LET records == parse_building_record_xml(uploaded_files[i].bytes.text) IN
       /\ st_errors' = st_errors \o records.errors
       /\ all_records' = Extend(all_records,
                                Tagged(records.value, PlainTag(uploaded_files[i])))
       /\ origin' = Extend(origin, Origins(i, 0, Len(records.value)))
    /\ i' = i + 1
    /\ UNCHANGED <<xml_content, ret, xpc, uploaded_files, pc, j, df>>

\* line 120 raising, lines 126-128
PlainUndecodable ==
    /\ InLoop
    /\ ~EndsWith(uploaded_files[i].name, ".zip")
    /\ ~uploaded_files[i].bytes.decodable
    /\ st_errors' = Append(st_errors,
                           FileDiagnostic(uploaded_files[i], "UnicodeDecodeError"))
    /\ i' = i + 1
    /\ UNCHANGED <<xml_content, ret, xpc, uploaded_files, pc, j, all_records, origin, df>>

\* line 109
OpenZip ==
    /\ InLoop
    /\ EndsWith(uploaded_files[i].name, ".zip")
    /\ uploaded_files[i].validzip
    /\ pc' = "zip"
    /\ j' = 1
    /\ UNCHANGED <<xml_content, ret, xpc, uploaded_files, i, all_records, origin,
                   st_errors, df>>

\* line 109 raising, lines 126-128
ZipUnreadable ==
    /\ InLoop
    /\ EndsWith(uploaded_files[i].name, ".zip")
    /\ ~uploaded_files[i].validzip
    /\ st_errors' = Append(st_errors, FileDiagnostic(uploaded_files[i], "BadZipFile"))
    /\ i' = i + 1
    /\ UNCHANGED <<xml_content, ret, xpc, uploaded_files, pc, j, all_records, origin, df>>

\* line 111, the name does not end with .xml
SkipEntry ==
    /\ InZip
    /\ ~EndsWith(uploaded_files[i].entries[j].name, ".xml")
    /\ j' = j + 1
    /\ UNCHANGED <<xml_content, ret, xpc, uploaded_files, pc, i, all_records, origin,
                   st_errors, df>>

\* lines 112-117
ProcessEntry ==
    /\ InZip
    /\ EndsWith(uploaded_files[i].entries[j].name, ".xml")
    /\ uploaded_files[i].entries[j].bytes.decodable
    /\ LET entry == uploaded_files[i].entries[j]
           records == parse_building_record_xml(entry.bytes.text)
       IN  /\ st_errors' = st_errors \o records.errors
           /\ all_records' = Extend(all_records,
                                    Tagged(records.value, EntryTag(uploaded_files[i], entry)))
           /\ origin' = Extend(origin, Origins(i, j, Len(records.value)))
    /\ j' = j + 1
    /\ UNCHANGED <<xml_content, ret, xpc, uploaded_files, pc, i, df>>

\* line 113 raising: the exception leaves the with blocks and the loop over
\* the entries, and is caught at lines 126-128
EntryUndecodable ==
    /\ InZip
    /\ EndsWith(uploaded_files[i].entries[j].name, ".xml")
    /\ ~uploaded_files[i].entries[j].bytes.decodable
    /\ st_errors' = Append(st_errors,
                           FileDiagnostic(uploaded_files[i], "UnicodeDecodeError"))
    /\ pc' = "loop"
    /\ i' = i + 1
    /\ j' = 0
    /\ UNCHANGED <<xml_content, ret, xpc, uploaded_files, all_records, origin, df>>

\* the loop of line 110 ends
CloseZip ==
    /\ pc = "zip"
    /\ j > Len(uploaded_files[i].entries)
    /\ pc' = "loop"
    /\ i' = i + 1
    /\ j' = 0
    /\ UNCHANGED <<xml_content, ret, xpc, uploaded_files, all_records, origin,
                   st_errors, df>>

\* lines 130-134
Finish ==
    /\ pc = "loop"
    /\ i > Len(uploaded_files)
    /\ df' = DataFrame(all_records)
    /\ pc' = "done"
    /\ UNCHANGED <<xml_content, ret, xpc, uploaded_files, i, j, all_records, origin,
                   st_errors>>

Next ==
    \/ ProcessPlain
    \/ PlainUndecodable
    \/ OpenZip
    \/ ZipUnreadable
    \/ SkipEntry
    \/ ProcessEntry
    \/ EntryUndecodable
    \/ CloseZip
    \/ Finish

Spec == InitAgg /\ [][Next]_vars

-----------------------------------------------------------------------------
(* Properties of the Extractor, under SpecExtract *)

GlobalKeys == {"sender_code", "local_authority_code", "submission_date",
               "sender_email", "sender_phone"}
GlobalKeyOf(tag) ==
    CASE tag = "SenderCode" -> "sender_code"
      [] tag = "LocalAuthorityCode" -> "local_authority_code"
      [] tag = "SubmissionDate" -> "submission_date"
      [] tag = "SenderResponseEmailAddress" -> "sender_email"
      [] tag = "SenderResponsePhoneNo" -> "sender_phone"

TopSections == {"StatusDetails", "RecordDetails", "WorkAddressDetails",
                "WorkDetails", "ContactInformation"}
SectionKeys(section) ==
    CASE section = "StatusDetails" -> {"status_type"}
      [] section = "RecordDetails" -> {"record_type"}
      [] section = "WorkAddressDetails" ->
           {"number_name", "street", "locality", "town_city", "county",
            "post_code", "work_address_uprn", "type_of_property"}
      [] section = "WorkDetails" ->
           {"sender_unique_record_id", "cp_scheme_certificate_ref",
            "commissioning_required", "commissioning_carried_out",
            "date_work_completed"}
      [] section = "ContactInformation" ->
           {"contact_type", "installer_registered_name",
            "person_registration_id", "telephone_no"}

\* the fixed set of keys of a record as the Extractor returns it
ExtractorKeys ==
    GlobalKeys \cup {"work_description"} \cup UNION {SectionKeys(x) : x \in TopSections}

Returned == xpc = "returned"
Brs == findall(xml_content.root)

\* C2 (as claimed): every record the Extractor returns has the complete fixed
\* set of keys, and a field whose section is absent is the empty string
\* (work_address_uprn: null).
C2_FixedKeys ==
    Returned =>
        \A k \in 1..Len(ret.value) :
            /\ DOMAIN ret.value[k] = ExtractorKeys
            /\ \A x \in TopSections :
                   find(Brs[k], x).none =>
                       \A key \in SectionKeys(x) :
                           ret.value[k][key] =
                               IF key = "work_address_uprn" THEN PyNone ELSE PyStr(<<>>)

\* C3 (as claimed): a well-formed document without GlobalDetails, or without
\* some of its five fields, gives no error and one record per BuildingRecord,
\* each missing global field being the empty string.
C3_MissingGlobalsDefault ==
    (Returned /\ xml_content.wellformed
       /\ \E tag \in GlobalTags : find(find(xml_content.root, "GlobalDetails"), tag).none)
    =>
        /\ ret.errors = <<>>
        /\ Len(ret.value) = Len(Brs)
        /\ \A k \in 1..Len(ret.value) : \A tag \in GlobalTags :
               find(find(xml_content.root, "GlobalDetails"), tag).none
                   => ret.value[k][GlobalKeyOf(tag)] = PyStr(<<>>)

ParseDiagnostic == Diagnostic("XML parsing error", NoName, "ParseError")

\* C6 (as claimed): for a document that is not well-formed the Extractor
\* fails with a ParseError, which the caller can tell from an empty result.
C6_RaisesParseError ==
    (Returned /\ ~xml_content.wellformed) => ret.raised = "ParseError"

\* C6 (amended): for a document that is not well-formed the Extractor raises
\* nothing; it records the diagnostic "XML parsing error" and returns the
\* empty sequence, the return value of a well-formed document without
\* BuildingRecord elements; that diagnostic is recorded for no well-formed
\* document.
C6_ReturnsEmptyWithDiagnostic ==
    Returned =>
        /\ ~xml_content.wellformed =>
               /\ ret.raised = "none"
               /\ ret.value = <<>>
               /\ ret.errors = <<ParseDiagnostic>>
               /\ st_errors = <<ParseDiagnostic>>
        /\ xml_content.wellformed =>
               /\ ret.raised = "none"
               /\ Len(Brs) = 0 => ret.value = <<>>
               /\ \A e \in 1..Len(ret.errors) : ret.errors[e] # ParseDiagnostic

C6_Witness == Returned /\ ~xml_content.wellformed /\ Len(st_errors) = 1

-----------------------------------------------------------------------------
(* work_address_uprn *)

RECURSIVE Pow10(_)
Pow10(e) == IF e = 0 THEN 1 ELSE 10 * Pow10(e - 1)

RECURSIVE PlaceSum(_, _)
PlaceSum(s, k) ==
    IF k > Len(s) THEN 0
    ELSE DigitVal(s[k]) * Pow10(Len(s) - k) + PlaceSum(s, k + 1)

OnlyDecimal(s) == Len(s) > 0 /\ \A k \in 1..Len(s) : s[k] \in DecimalDigits
LettersDecimalsSigns == {"a", ".", "-"}
\* the texts the claim says give null
NullClass(s) == Len(s) = 0 \/ \E k \in 1..Len(s) : s[k] \in LettersDecimalsSigns

\* the text of WorkAddressUprn as the document has it (<<>> when missing)
DocUprn(br) ==
    LET e == find(find(br, "WorkAddressDetails"), "WorkAddressUprn") IN
    IF e.none \/ e.text.t # "str" THEN <<>> ELSE e.text.s

-----------------------------------------------------------------------------
(* work_description *)

HasText(item) == item.text.t = "str" /\ item.text.s # <<>>

\* the items of WorkDescription as the document has them
DocItems(br) ==
    LET wd == find(br, "WorkDescription") IN IF wd.none THEN <<>> ELSE findall(wd)

RECURSIVE Offset(_, _)
\* where the m-th kept item starts in the joined text
Offset(kept, m) ==
    IF m = 1 THEN 1 ELSE Offset(kept, m - 1) + Len(kept[m - 1].text.s) + 3

JoinedAs(s, kept) ==
    LET n == Len(kept) IN
    /\ n = 0 => s = <<>>
    /\ n > 0 => Len(s) = Offset(kept, n) + Len(kept[n].text.s) - 1
    /\ \A m \in 1..n :
           LET from == Offset(kept, m)
               to == from + Len(kept[m].text.s) - 1
           IN  /\ SubSeq(s, from, to) = kept[m].text.s
               /\ m < n => SubSeq(s, to + 1, to + 3) = <<" ", "|", " ">>

\* C10: work_description is the texts of the DescriptionOfWorkItem leaves in
\* document order, those without text dropped, with " | " between the kept
\* ones and nowhere else; it is empty without WorkDescription or kept items.
C10_WorkDescriptionJoined ==
    (Returned /\ ret.errors = <<>>) =>
        \A k \in 1..Len(ret.value) :
            LET wd == ret.value[k]["work_description"]
                items == DocItems(Brs[k])
            IN  /\ wd.t = "str"
                /\ JoinedAs(wd.s, SelectSeq(items, HasText))
                /\ (Len(items) = 3 /\ items[1].text = PyStr(<<"B", "i">>)
                      /\ ~HasText(items[2]) /\ items[3].text = PyStr(<<"F">>))
                   => wd.s = <<"B", "i", " ", "|", " ", "F">>

C10_Witness ==
    /\ Returned
    /\ Len(ret.value) = 1
    /\ Len(DocItems(Brs[1])) = 3
    /\ DocItems(Brs[1])[2].text = PyStr(<<>>)
    /\ ret.value[1]["work_description"] = PyStr(<<"B", "i", " ", "|", " ", "F">>)

-----------------------------------------------------------------------------
(* Properties of the Aggregator, under Spec *)

IsZip(s) == EndsWith(uploaded_files[s].name, ".zip")

\* the documents of the batch: <<s, 0>> is the plain source s, <<s, e>> the
\* entry e of the archive s whose name ends with .xml
Docs ==
    {<<s, 0>> : s \in {x \in 1..Len(uploaded_files) : ~IsZip(x)}}
    \cup UNION {{<<s, e>> : e \in {y \in 1..Len(uploaded_files[s].entries) :
                                     EndsWith(uploaded_files[s].entries[y].name, ".xml")}} :
                s \in {x \in 1..Len(uploaded_files) :
                          IsZip(x) /\ uploaded_files[x].validzip}}

BytesAt(s, e) ==
    IF e = 0 THEN uploaded_files[s].bytes ELSE uploaded_files[s].entries[e].bytes
NameAt(s, e) ==
    IF e = 0 THEN uploaded_files[s].name ELSE uploaded_files[s].entries[e].name

\* from the document alone: its extraction fails (not well-formed, no
\* GlobalDetails, or a WorkAddressUprn that isdigit accepts and int rejects)
ExtractionFails(text) ==
    \/ ~text.wellformed
    \/ find(text.root, "GlobalDetails").none
    \/ \E k \in 1..Len(findall(text.root)) :
          LET u == DocUprn(findall(text.root)[k]) IN
          /\ Len(u) > 0
          /\ \A c \in 1..Len(u) : u[c] \in DecimalDigits \cup OtherDigits
          /\ \E c \in 1..Len(u) : u[c] \in OtherDigits

NumRecords(s, e) == Len(findall(BytesAt(s, e).text.root))
Sound(s, e) == BytesAt(s, e).decodable /\ ~ExtractionFails(BytesAt(s, e).text)

\* how many records of all_records come from the document <<s, e>>
Count(s, e) ==
    Cardinality({k \in 1..Len(origin) : origin[k].src = s /\ origin[k].ent = e})

\* an entry of the archive s before e that could not be decoded
CutBefore(s, e) ==
    \E y \in 1..(e - 1) :
        /\ EndsWith(uploaded_files[s].entries[y].name, ".xml")
        /\ ~uploaded_files[s].entries[y].bytes.decodable

\* the Extractor has been run on the document <<s, e>>
Extracted(s, e) ==
    /\ BytesAt(s, e).decodable
    /\ e # 0 => ~CutBefore(s, e)
    /\ \/ s < i
       \/ s = i /\ pc = "zip" /\ e # 0 /\ e < j

Done == pc = "done"

Failing ==
    {d \in Docs : ~Sound(d[1], d[2])}
    \cup {<<s, 0>> : s \in {x \in 1..Len(uploaded_files) :
                              IsZip(x) /\ ~uploaded_files[x].validzip}}

\* C1 (as claimed): at the end every document that can be read and extracted
\* has all its records in the result, every other one has none, and a
\* diagnostic is recorded when a source or document failed.
C1_NoSourceLost ==
    Done =>
        /\ \A d \in Docs :
               Count(d[1], d[2]) = IF Sound(d[1], d[2]) THEN NumRecords(d[1], d[2]) ELSE 0
        /\ Failing # {} => st_errors # <<>>

\* C4 (as claimed): an entry that cannot be decoded costs only its own
\* records: every sound .xml entry after it in the archive has its records in
\* the result.
C4_LaterEntriesKept ==
    Done =>
        \A d \in Docs :
            (d[2] # 0 /\ CutBefore(d[1], d[2]) /\ Sound(d[1], d[2]))
                => Count(d[1], d[2]) = NumRecords(d[1], d[2])

\* C5: a document whose extraction fails has no record in all_records, and
\* every document extracted without failure has all of its records there,
\* whatever happened to the documents around it.
C5_AllOrNothing ==
    /\ Len(all_records) = Len(origin)
    /\ \A k \in 1..Len(origin) :
           /\ <<origin[k].src, origin[k].ent>> \in Docs
           /\ Sound(origin[k].src, origin[k].ent)
    /\ \A d \in Docs :
           Extracted(d[1], d[2]) =>
               Count(d[1], d[2]) =
                   IF ExtractionFails(BytesAt(d[1], d[2]).text) THEN 0
                   ELSE NumRecords(d[1], d[2])

After(d, c) == d[1] > c[1] \/ (d[1] = c[1] /\ d[2] > c[2])

C5_Witness ==
    /\ Done
    /\ \E c \in Docs, d \in Docs :
          /\ Extracted(c[1], c[2])
          /\ BytesAt(c[1], c[2]).text.wellformed
          /\ ExtractionFails(BytesAt(c[1], c[2]).text)
          /\ NumRecords(c[1], c[2]) >= 2
          /\ Count(c[1], c[2]) = 0
          /\ After(d, c)
          /\ Count(d[1], d[2]) > 0

Untagged(r) == [key \in DOMAIN r \ {"source_file"} |-> r[key]]

\* C8: all_records is in processing order: sources in input order, entries
\* in archive order, the records of a document in document order and next
\* to each other; each is the record built from its BuildingRecord element.
C8_OrderPreserved ==
    /\ Len(all_records) = Len(origin)
    /\ \A k \in 1..Len(origin) :
           LET o == origin[k]
               root == BytesAt(o.src, o.ent).text.root
           IN  /\ o.rec \in 1..Len(findall(root))
               /\ Untagged(all_records[k]) =
                      BuildRecord(GlobalFields(root), findall(root)[o.rec])
    /\ \A k \in 1..(Len(origin) - 1) :
           LET o == origin[k]
               n == origin[k + 1]
           IN  \/ o.src < n.src
               \/ o.src = n.src /\ o.ent < n.ent
               \/ o.src = n.src /\ o.ent = n.ent /\ n.rec = o.rec + 1

C8_Witness ==
    /\ Done
    /\ \E k \in 1..(Len(origin) - 1) :
          origin[k].src = origin[k + 1].src /\ origin[k].ent < origin[k + 1].ent
    /\ \E k \in 1..(Len(origin) - 1) :
          /\ origin[k].src = origin[k + 1].src
          /\ origin[k].ent = origin[k + 1].ent
          /\ all_records[k] # all_records[k + 1]

\* C9: source_file of every record is the name of the document it comes
\* from: the entry's name for a record of an archive, never the archive's,
\* and the source's own name for a plain source.
C9_SourceFileIsDocumentName ==
    /\ Len(all_records) = Len(origin)
    /\ \A k \in 1..Len(origin) :
           /\ "source_file" \in DOMAIN all_records[k]
           /\ all_records[k]["source_file"] = NameText(NameAt(origin[k].src, origin[k].ent))
           /\ origin[k].ent # 0 =>
                  all_records[k]["source_file"] # NameText(uploaded_files[origin[k].src].name)

C9_Witness ==
    /\ Done
    /\ \E k \in 1..Len(origin), m \in 1..Len(origin) :
          /\ origin[k].src = origin[m].src
          /\ origin[k].ent # 0
          /\ origin[k].ent < origin[m].ent
          /\ all_records[k]["source_file"] = NameText(Name("x", ".xml"))
          /\ all_records[m]["source_file"] = NameText(Name("y", ".xml"))

====
